---- MODULE Spec2Model ----
(***************************************************************************)
(* A model of flagged_cl_args: the type resolution of VariantFlag::parse,  *)
(* the ordering Variant::total_cmp and the single pass of Args::from_iter. *)
(*                                                                         *)
(* A text (a Rust String / &str) is a sequence of one-character strings.   *)
(* Only printable ASCII is modelled.                                       *)
(***************************************************************************)
EXTENDS Integers, Sequences, FiniteSets, TLC

VARIABLES
    args,              \* the token stream handed to from_iter (element 1 is the binary)
    positional_types,  \* the declared positional constraints, a sequence of VariantFlag
    flag_definitions,  \* the declared FlagDefinitions
    hosts,             \* the environment's name resolution: host text -> address or none
    pc,                \* position of from_iter: "start", "loop", "done", or "idle"
    cursor,            \* number of items the enumerate() iterator has yielded
    binary,            \* local `binary`
    named,             \* local `named`, a function from flag names to Variants
    positional,        \* local `positional`, a sequence of Variants
    ret,               \* the value from_iter returned, once it has returned
    cls,               \* per token index, how the pass used the token (history)
    inp,               \* input of a pure-function call (parse, total_cmp, from_iter pair)
    out                \* its result

vars == << args, positional_types, flag_definitions, hosts, pc, cursor,
           binary, named, positional, ret, cls, inp, out >>

-----------------------------------------------------------------------------
(* Texts *)

Ascii ==
  << " ", "!", "\"", "#", "$", "%", "&", "'", "(", ")", "*", "+",
     ",", "-", ".", "/", "0", "1", "2", "3", "4", "5", "6", "7",
     "8", "9", ":", ";", "<", "=", ">", "?", "@", "A", "B", "C",
     "D", "E", "F", "G", "H", "I", "J", "K", "L", "M", "N", "O",
     "P", "Q", "R", "S", "T", "U", "V", "W", "X", "Y", "Z", "[",
     "\\", "]", "^", "_", "grave", "a", "b", "c", "d", "e", "f", "g",
     "h", "i", "j", "k", "l", "m", "n", "o", "p", "q", "r", "s",
     "t", "u", "v", "w", "x", "y", "z", "{", "|", "}", "~" >>

\* The byte of a printable ASCII character (the table holds a name in the
\* place of the grave accent, byte 96, which is not a modelled character).
Code(ch) == 31 + (CHOOSE i \in 1..Len(Ascii) : Ascii[i] = ch)

IsDigit(ch) == ch \in {"0", "1", "2", "3", "4", "5", "6", "7", "8", "9"}

DigitVal(ch) == Code(ch) - 48

\* char::to_ascii_lowercase
Lower(ch) == IF Code(ch) \in 65..90 THEN Ascii[Code(ch) + 1] ELSE ch

LowerText(s) == [i \in 1..Len(s) |-> Lower(s[i])]

Drop(s, n) == SubSeq(s, n + 1, Len(s))

Take(s, n) == SubSeq(s, 1, n)

\* str::starts_with
starts_with(s, p) == Len(s) >= Len(p) /\ Take(s, Len(p)) = p

AllDigits(s) == \A i \in 1..Len(s) : IsDigit(s[i])

\* The positions of character ch in s.
Positions(s, ch) == {i \in 1..Len(s) : s[i] = ch}

Max(S) == CHOOSE x \in S : \A y \in S : y <= x

Min(S) == CHOOSE x \in S : \A y \in S : x <= y

\* str::split(ch)
RECURSIVE Split(_, _)
Split(s, ch) ==
    IF Positions(s, ch) = {} THEN << s >>
    ELSE LET i == Min(Positions(s, ch))
         IN  << Take(s, i - 1) >> \o Split(Drop(s, i), ch)

RECURSIVE Pow2(_)
Pow2(n) == IF n = 0 THEN 1 ELSE 2 * Pow2(n - 1)

RECURSIVE Pow10(_)
Pow10(n) == IF n = 0 THEN 1 ELSE 10 * Pow10(n - 1)

\* Result<T, E> with the content of the error dropped, and Option<T>.
Ok(v) == [ok |-> TRUE, val |-> v]
Err == [ok |-> FALSE]
Some(v) == [some |-> TRUE, val |-> v]
None == [some |-> FALSE]

-----------------------------------------------------------------------------
(* The standard conversions VariantFlag::parse tries *)

\* bool::from_str: exactly the literals true and false.
bool_from_str(raw) ==
    IF raw = << "t", "r", "u", "e" >> THEN Ok(TRUE)
    ELSE IF raw = << "f", "a", "l", "s", "e" >> THEN Ok(FALSE)
    ELSE Err

I32_MAX == 2147483647
I32_MIN == (-2147483647) - 1
U16_MAX == 65535
U8_MAX == 255

\* The digit loop of integer parsing with checked_mul / checked_add
\* (checked_sub when negative); lo and hi are the type's range.
RECURSIVE AccumDigits(_, _, _, _, _, _)
AccumDigits(s, i, acc, neg, lo, hi) ==
    IF i > Len(s) THEN Ok(acc)
    ELSE IF ~IsDigit(s[i]) THEN Err
    ELSE LET d == DigitVal(s[i])
         IN  IF neg
             THEN IF acc < (lo + d + 9) \div 10 THEN Err
                  ELSE AccumDigits(s, i + 1, acc * 10 - d, neg, lo, hi)
             ELSE IF acc > (hi - d) \div 10 THEN Err
                  ELSE AccumDigits(s, i + 1, acc * 10 + d, neg, lo, hi)

\* i32::from_str: an optional sign, one or more digits, value within i32.
i32_from_str(raw) ==
    IF raw = << >> \/ raw = << "+" >> \/ raw = << "-" >> THEN Err
    ELSE IF raw[1] = "-" THEN AccumDigits(Drop(raw, 1), 1, 0, TRUE, I32_MIN, I32_MAX)
    ELSE IF raw[1] = "+" THEN AccumDigits(Drop(raw, 1), 1, 0, FALSE, I32_MIN, I32_MAX)
    ELSE AccumDigits(raw, 1, 0, FALSE, I32_MIN, I32_MAX)

\* u16::from_str: an optional plus sign, one or more digits, value within u16.
u16_from_str(raw) ==
    IF raw = << >> \/ raw = << "+" >> \/ raw = << "-" >> THEN Err
    ELSE IF raw[1] = "+" THEN AccumDigits(Drop(raw, 1), 1, 0, FALSE, 0, U16_MAX)
    ELSE AccumDigits(raw, 1, 0, FALSE, 0, U16_MAX)

\* char::to_digit(radix) for a radix up to 36: a decimal digit or a letter
\* of either case, a standing for 10, whose value is below the radix; -1
\* stands for None.
to_digit(ch, radix) ==
    LET v == IF IsDigit(ch) THEN DigitVal(ch)
             ELSE IF Code(ch) \in 97..122 THEN Code(ch) - 87
             ELSE IF Code(ch) \in 65..90 THEN Code(ch) - 55
             ELSE radix
    IN  IF v < radix THEN v ELSE -1

\* The result of a reader of the address parser: the value read and the
\* text left after it.  A reader that fails gives None and leaves the
\* position where it was (read_atomically).
Read(v, rest) == [some |-> TRUE, val |-> v, rest |-> rest]

\* Parser::parse_with: the reader must consume the whole text.
parse_with(r) == IF r.some /\ r.rest = << >> THEN Ok(r.val) ELSE Err

\* Option::or
or_else(a, b) == IF a.some THEN a ELSE b

\* Parser::read_given_char
read_given_char(s, c) ==
    IF s # << >> /\ s[1] = c THEN Read(c, Drop(s, 1)) ELSE None

\* read_given_char where the reader p before it has read.
read_given_char_after(p, c) == IF p.some THEN read_given_char(p.rest, c) ELSE None

\* Parser::read_separator: before every element but the first, sep; the
\* rest of the result is the text the element is read from.
read_separator(s, sep, index) ==
    IF index = 0 THEN Read(sep, s) ELSE read_given_char(s, sep)

\* to_digit of every character of s.
ToDigits(s, radix) == << >> \o [i \in 1..Len(s) |-> to_digit(s[i], radix)]

\* The longest prefix of ds made of digits.
DigitRun(ds) ==
    LET stops == {i \in 1..Len(ds) : ds[i] < 0}
    IN  IF stops = {} THEN ds ELSE Take(ds, Min(stops) - 1)

\* result * radix + digit over the digits ds while the value stays within hi.
RECURSIVE AccumRadix(_, _, _, _, _)
AccumRadix(ds, i, acc, radix, hi) ==
    IF i > Len(ds) THEN Ok(acc)
    ELSE IF acc > (hi - ds[i]) \div radix THEN Err
    ELSE AccumRadix(ds, i + 1, acc * radix + ds[i], radix, hi)

\* The number a digit loop gave, with the text left after it.
read_value(v, rest) == IF v.ok THEN Read(v.val, rest) ELSE None

\* Parser::read_number once the digits ds at the start of s are known.
read_digits(s, ds, radix, max_digits, allow_zero_prefix, hi) ==
    IF ds = << >> THEN None
    ELSE IF max_digits.some /\ Len(ds) > max_digits.val THEN None
    ELSE IF ~allow_zero_prefix /\ ds[1] = 0 /\ Len(ds) > 1 THEN None
    ELSE read_value(AccumRadix(ds, 1, 0, radix, hi), Drop(s, Len(ds)))

\* Parser::read_number for a type with the range 0..hi: every digit that
\* follows is read; more than max_digits digits, no digit, a zero prefix
\* where it is not allowed, or a value beyond hi give None.
read_number(s, radix, max_digits, allow_zero_prefix, hi) ==
    read_digits(s, DigitRun(ToDigits(s, radix)), radix, max_digits, allow_zero_prefix, hi)

\* read_number where the reader p before it has read.
read_number_after(p, radix, max_digits, allow_zero_prefix, hi) ==
    IF p.some THEN read_number(p.rest, radix, max_digits, allow_zero_prefix, hi)
    ELSE None

\* One more element n on the elements read so far.
read_push(groups, n) == IF n.some THEN Read(Append(groups, n.val), n.rest) ELSE None

\* Parser::read_ipv4_addr: four octets separated by dots, each of one to
\* three digits without a zero prefix; r holds the octets read so far.
RECURSIVE read_ipv4_groups(_, _)
read_ipv4_groups(r, i) ==
    IF ~r.some \/ i = 4 THEN r
    ELSE read_ipv4_groups(
             read_push(r.val, read_number_after(read_separator(r.rest, ".", i),
                                                10, Some(3), FALSE, U8_MAX)),
             i + 1)

read_ipv4_addr(s) == read_ipv4_groups(Read(<< >>, s), 0)

\* read_groups of Parser::read_ipv6_addr: up to limit groups of one to four
\* hex digits separated by colons; where at least two groups are left, a
\* dotted quad is tried first and, when read, ends the groups.  The result
\* holds the number of groups read, whether a dotted quad ended them, the
\* groups and the text left.
RECURSIVE read_groups_from(_, _, _, _)
RECURSIVE read_groups_pick(_, _, _, _, _, _)
read_groups_pick(s, limit, i, groups, v4, g) ==
    IF v4.some
    THEN [size |-> i + 2, ipv4 |-> TRUE,
          groups |-> groups \o << v4.val[1] * 256 + v4.val[2],
                                  v4.val[3] * 256 + v4.val[4] >>,
          rest |-> v4.rest]
    ELSE IF g.some
    THEN read_groups_from(g.rest, limit, i + 1, Append(groups, g.val))
    ELSE [size |-> i, ipv4 |-> FALSE, groups |-> groups, rest |-> s]

\* The two readers of one group, after the separator p.
read_groups_try(s, limit, i, groups, p) ==
    read_groups_pick(s, limit, i, groups,
                     IF i < limit - 1 /\ p.some THEN read_ipv4_addr(p.rest) ELSE None,
                     read_number_after(p, 16, Some(4), TRUE, U16_MAX))

read_groups_from(s, limit, i, groups) ==
    IF i >= limit THEN [size |-> limit, ipv4 |-> FALSE, groups |-> groups, rest |-> s]
    ELSE read_groups_try(s, limit, i, groups, read_separator(s, ":", i))

\* The address of a head and a tail around :: : the groups between them
\* are zeros.
ipv6_join(head, tail) ==
    Read(head.groups \o [k \in 1..(8 - head.size - tail.size) |-> 0] \o tail.groups,
         tail.rest)

\* The tail after the two colons c.
ipv6_after_colons(head, c) ==
    IF c.some THEN ipv6_join(head, read_groups_from(c.rest, 8 - (head.size + 1), 0, << >>))
    ELSE None

\* The rest of read_ipv6_addr once the head is read.
ipv6_after_head(head) ==
    IF head.size = 8 THEN Read(head.groups, head.rest)
    ELSE IF head.ipv4 THEN None
    ELSE ipv6_after_colons(head,
                           read_given_char_after(read_given_char(head.rest, ":"), ":"))

\* Parser::read_ipv6_addr: eight groups, or a head and a tail around one ::
\* that stands for the groups of zeros between them.
read_ipv6_addr(s) == ipv6_after_head(read_groups_from(s, 8, 0, << >>))

\* Ipv6Addr::from_str; inet_pton of the C library reads a V6 address the
\* same way.
ipv6_from_str(s) == parse_with(read_ipv6_addr(s))

\* Parser::read_port: a colon and a decimal number within u16.
read_port(s) == read_number_after(read_given_char(s, ":"), 10, None, TRUE, U16_MAX)

\* A u32 by its two 16-bit halves << high, low >>: result * radix + digit
\* over the digits ds, Err once the value is beyond u32.
RECURSIVE AccumU32(_, _, _, _, _)
AccumU32(ds, i, high, low, radix) ==
    IF i > Len(ds) THEN Ok(<< high, low >>)
    ELSE IF high * radix + (low * radix + ds[i]) \div 65536 > U16_MAX THEN Err
    ELSE AccumU32(ds, i + 1, high * radix + (low * radix + ds[i]) \div 65536,
                  (low * radix + ds[i]) % 65536, radix)

\* A number within u32 once the digits ds at the start of s are known, as
\* read_number::<u32>(10, None, true) reads it.
read_u32_digits(s, ds, radix) ==
    IF ds = << >> THEN None
    ELSE read_value(AccumU32(ds, 1, 0, 0, radix), Drop(s, Len(ds)))

\* Parser::read_scope_id: a percent sign and a decimal number within u32.
read_scope_id(s) ==
    IF s # << >> /\ s[1] = "%"
    THEN read_u32_digits(Drop(s, 1), DigitRun(ToDigits(Drop(s, 1), 10)), 10)
    ELSE None

\* A SocketAddr value: fam is 4 or 6.  A V4 address holds four octets and a
\* port; a V6 address holds eight 16-bit groups, a port, the flowinfo and the
\* scope id, the scope id (a u32) as its two 16-bit halves << high, low >>.
SocketAddrV4(ip, port) == [fam |-> 4, ip |-> ip, port |-> port]

SocketAddrV6(ip, port, flowinfo, scope_id) ==
    [fam |-> 6, ip |-> ip, port |-> port, flowinfo |-> flowinfo, scope_id |-> scope_id]

\* The V4 socket address of the address ip and what read_port gave.
v4_after_port(ip, port) ==
    IF port.some THEN Read(SocketAddrV4(ip, port.val), port.rest) ELSE None

\* The port after what read_ipv4_addr gave.
v4_after_ip(ip) == IF ip.some THEN v4_after_port(ip.val, read_port(ip.rest)) ELSE None

\* Parser::read_socket_addr_v4: a.b.c.d:port
read_socket_addr_v4(s) == v4_after_ip(read_ipv4_addr(s))

\* The V6 socket address of the address ip, the scope id and what read_port
\* gave.
v6_after_port(ip, scope_id, port) ==
    IF port.some THEN Read(SocketAddrV6(ip, port.val, 0, scope_id), port.rest) ELSE None

\* The closing bracket and the port after what read_scope_id gave; a scope
\* id that cannot be read counts as absent.
v6_after_scope(ip, scope) ==
    v6_after_port(ip.val, IF scope.some THEN scope.val ELSE << 0, 0 >>,
                  read_number_after(
                      read_given_char_after(
                          read_given_char(IF scope.some THEN scope.rest ELSE ip.rest, "]"),
                          ":"),
                      10, None, TRUE, U16_MAX))

\* The scope id after what read_ipv6_addr gave.
v6_after_ip(ip) == IF ip.some THEN v6_after_scope(ip, read_scope_id(ip.rest)) ELSE None

\* Parser::read_socket_addr_v6: [address]:port or [address%scope]:port
read_socket_addr_v6(s) ==
    IF s # << >> /\ s[1] = "[" THEN v6_after_ip(read_ipv6_addr(Drop(s, 1))) ELSE None

\* Parser::read_socket_addr: the V4 form, or else the V6 form.
read_socket_addr(s) == or_else(read_socket_addr_v4(s), read_socket_addr_v6(s))

\* SocketAddr::from_str
socket_addr_from_str(raw) == parse_with(read_socket_addr(raw))

\* strtoul(cp, &endp, 0) on a text that starts with a digit: hex digits
\* after 0x or 0X, octal digits after any other leading 0, decimal digits
\* otherwise; None for a value beyond u32, which inet_aton refuses.
strtoul(s) ==
    LET radix == IF Len(s) > 2 /\ s[1] = "0" /\ s[2] \in {"x", "X"}
                    /\ to_digit(s[3], 16) >= 0 THEN 16
                 ELSE IF s[1] = "0" THEN 8
                 ELSE 10
        t == IF radix = 16 THEN Drop(s, 2) ELSE s
    IN  read_u32_digits(t, DigitRun(ToDigits(t, radix)), radix)

\* inet_aton of the C library, with nothing allowed after the address: one
\* to four numbers separated by dots, each as strtoul reads it.  A number
\* before a dot is one byte; the last number fills the bytes that are left.
RECURSIVE inet_aton_from(_, _)
RECURSIVE inet_aton_next(_, _)
inet_aton_next(bytes, v) ==
    IF ~v.some THEN Err
    ELSE IF v.rest # << >> /\ v.rest[1] = "."
    THEN IF Len(bytes) > 2 \/ v.val[1] # 0 \/ v.val[2] > U8_MAX THEN Err
         ELSE inet_aton_from(Drop(v.rest, 1), Append(bytes, v.val[2]))
    ELSE IF v.rest # << >> THEN Err
    ELSE LET w == << v.val[1] \div 256, v.val[1] % 256,
                     v.val[2] \div 256, v.val[2] % 256 >>
         IN  IF \E i \in 1..Len(bytes) : w[i] # 0 THEN Err
             ELSE Ok(bytes \o SubSeq(w, Len(bytes) + 1, 4))

inet_aton_from(s, bytes) ==
    IF s = << >> \/ ~IsDigit(s[1]) THEN Err ELSE inet_aton_next(bytes, strtoul(s))

\* if_nametoindex of the C library, 0 for no such interface: a name that
\* does not fit the buffer of IFNAMSIZ = 16 bytes, its terminator included,
\* names none, and the system cuts the name at its first colon (the alias
\* form).  The environment has the loopback interface lo, whose index is 1.
if_nametoindex(name) ==
    IF Len(name) < 16 /\ Split(name, ":")[1] = << "l", "o" >> THEN 1 ELSE 0

\* The scope id the text scope names for the address ip: for a link-local
\* address (fe80::/10) and for a multicast address of node or link scope
\* the index of the interface of that name, otherwise a decimal number
\* within u32.
inet6_scopeid_pton(ip, scope) ==
    IF (ip[1] \div 64 = 1018 \/ (ip[1] \div 256 = 255 /\ ip[1] % 16 \in {1, 2}))
       /\ if_nametoindex(scope) # 0
    THEN Ok(<< 0, if_nametoindex(scope) >>)
    ELSE IF scope # << >> /\ AllDigits(scope)
    THEN AccumU32(ToDigits(scope, 10), 1, 0, 0, 10)
    ELSE Err

\* The host text at its first percent sign: the address before it and the
\* scope after it.
SplitScope(host) ==
    IF Positions(host, "%") = {} THEN << host, None >>
    ELSE << Take(host, Min(Positions(host, "%")) - 1),
            Some(Drop(host, Min(Positions(host, "%")))) >>

\* The V6 address ip with the scope id that was read, if it could be read.
numeric_v6(ip, port, id) ==
    IF id.ok THEN Ok(SocketAddrV6(ip, port, 0, id.val)) ELSE Err

\* The address getaddrinfo gives for a host: v4 is the host text read by
\* inet_aton and v6 the text before the scope read as a V6 address, and a
\* numeric host resolves to itself; any other host text resolves as the
\* environment's table h says, whatever the case of its letters.
resolve_host(v4, v6, scope, host, port, h) ==
    IF v4.ok THEN Ok(SocketAddrV4(v4.val, port))
    ELSE IF v6.ok
         THEN numeric_v6(v6.val, port,
                         IF scope.some THEN inet6_scopeid_pton(v6.val, scope.val)
                         ELSE Ok(<< 0, 0 >>))
    ELSE IF LowerText(host) \in DOMAIN h /\ h[LowerText(host)].some
         THEN Ok([h[LowerText(host)].val EXCEPT !.port = port])
         ELSE Err

\* The host lookup of the environment.
lookup_host(host, port, h) ==
    resolve_host(inet_aton_from(host, << >>), ipv6_from_str(SplitScope(host)[1]),
                 SplitScope(host)[2], host, port, h)

\* host:port split at the last colon and looked up.
resolve_socket_addr(raw, h) ==
    IF Positions(raw, ":") = {} THEN Err
    ELSE LET i == Max(Positions(raw, ":"))
             port == u16_from_str(Drop(raw, i))
         IN  IF ~port.ok THEN Err
             ELSE lookup_host(Take(raw, i - 1), port.val, h)

\* The literal form lit when the text has it, or else the lookup.
literal_or_lookup(lit, raw, h) == IF lit.ok THEN lit ELSE resolve_socket_addr(raw, h)

\* <str as ToSocketAddrs>::to_socket_addrs followed by .next(): the literal
\* form first, then host:port split at the last colon and looked up.
to_socket_addrs(raw, h) == literal_or_lookup(socket_addr_from_str(raw), raw, h)

\* An f32 by its IEEE 754 fields: sign bit, biased exponent, fraction.
F32(sign, exp, mant) == [sign |-> sign, exp |-> exp, mant |-> mant]

F32_INFINITY(sign) == F32(sign, 255, 0)
F32_NAN(sign) == F32(sign, 255, 4194304)
F32_ZERO(sign) == F32(sign, 0, 0)

\* The text without its leading zeros.
StripZeros(s) ==
    LET other == {i \in 1..Len(s) : s[i] # "0"}
    IN  IF other = {} THEN << >> ELSE Drop(s, Min(other) - 1)

\* Natural numbers of any size, for the exact value of a decimal text: the
\* limbs of the number in base 2^15, least significant first, none for zero
\* and no zero at the most significant end.
BigBase == 32768

BigTrim(a) ==
    LET used == {i \in 1..Len(a) : a[i] # 0}
    IN  IF used = {} THEN << >> ELSE Take(a, Max(used))

\* a * m + c for small m and c (below 2^15), from limb i on with a carry.
RECURSIVE BigMulAddFrom(_, _, _, _)
BigMulAddFrom(a, m, i, carry) ==
    IF i > Len(a) THEN (IF carry = 0 THEN << >> ELSE << carry >>)
    ELSE << (a[i] * m + carry) % BigBase >>
         \o BigMulAddFrom(a, m, i + 1, (a[i] * m + carry) \div BigBase)

\* The number written by the digits ds, taken in four at a time; st holds
\* the next position and the number so far.
RECURSIVE BigOfDigitsFrom(_, _)
BigOfDigitsFrom(ds, st) ==
    IF st[1] > Len(ds) THEN st[2]
    ELSE LET n == Min({4, Len(ds) + 1 - st[1]})
             chunk == AccumDigits(SubSeq(ds, st[1], st[1] + n - 1), 1, 0, FALSE, 0, 9999).val
         IN  BigOfDigitsFrom(ds, << st[1] + n, BigMulAddFrom(st[2], Pow10(n), 1, chunk) >>)

\* a * 10^k, four powers at a time; st holds the powers left and the number.
RECURSIVE BigTimesPow10From(_)
BigTimesPow10From(st) ==
    IF st[1] = 0 THEN st[2]
    ELSE LET n == Min({4, st[1]})
         IN  BigTimesPow10From(<< st[1] - n, BigMulAddFrom(st[2], Pow10(n), 1, 0) >>)

\* a * 2^k: whole limbs of zeros below, the rest by a small product.
BigTimesPow2(a, k) ==
    IF a = << >> THEN a
    ELSE [i \in 1..(k \div 15) |-> 0] \o BigMulAddFrom(a, Pow2(k % 15), 1, 0)

\* 2 * a: a limb of 2^14 or more carries one into the next.
BigDouble(a) ==
    LET n == Len(a)
        carry(i) == IF i > 1 /\ a[i - 1] >= 16384 THEN 1 ELSE 0
    IN  << >> \o [i \in 1..(IF n > 0 /\ a[n] >= 16384 THEN n + 1 ELSE n) |->
                    IF i > n THEN 1 ELSE (2 * a[i] + carry(i)) % BigBase]

\* a <= b: the lengths decide, then the most significant limb that differs.
BigLe(a, b) ==
    IF Len(a) # Len(b) THEN Len(a) < Len(b)
    ELSE ~\E i \in 1..Len(a) : a[i] > b[i] /\ \A j \in (i + 1)..Len(a) : a[j] = b[j]

\* a - b, for b <= a: a position borrows when the limbs of a below it make
\* a smaller number than those of b.
BigSub(a, b) ==
    LET d(i) == IF i <= Len(b) THEN b[i] ELSE 0
        borrow(i) == IF \E j \in 1..(i - 1) :
                            a[j] < d(j) /\ \A k \in (j + 1)..(i - 1) : a[k] = d(k)
                     THEN 1 ELSE 0
    IN  BigTrim(<< >> \o [i \in 1..Len(a) |->
                              (a[i] - d(i) - borrow(i) + BigBase) % BigBase])

\* The number of bits of a.
BigBits(a) ==
    IF a = << >> THEN 0
    ELSE 15 * (Len(a) - 1) + (CHOOSE n \in 1..15 : Pow2(n - 1) <= a[Len(a)] /\ a[Len(a)] < Pow2(n))

\* num and den brought to the same number of bits, d being the difference
\* of their numbers of bits.
Aligned(num, den, d) ==
    << IF d < 0 THEN BigTimesPow2(num, 0 - d) ELSE num,
       IF d > 0 THEN BigTimesPow2(den, d) ELSE den,
       d >>

\* The aligned pair n with its quotient in [1, 2).
Scaled(n) ==
    IF BigLe(n[2], n[1]) THEN n ELSE << BigDouble(n[1]), n[2], n[3] - 1 >>

\* Scale num/den into [1, 2) by powers of two, giving the scaled pair and
\* the binary exponent e of num/den.
Normalise(num, den) == Scaled(Aligned(num, den, BigBits(num) - BigBits(den)))

\* k further quotient bits of rem/den by long division.
RECURSIVE QuotientBits(_, _, _, _)
QuotientBits(q, rem, den, k) ==
    IF k = 0 THEN << q, rem >>
    ELSE IF BigLe(den, BigDouble(rem))
         THEN QuotientBits(2 * q + 1, BigSub(BigDouble(rem), den), den, k - 1)
         ELSE QuotientBits(2 * q, BigDouble(rem), den, k - 1)

\* The quotient b[1] with the remainder b[2] rounded to nearest, ties to
\* even.
Rounded(b, den) ==
    IF ~BigLe(BigDouble(b[2]), den) \/ (BigDouble(b[2]) = den /\ b[1] % 2 = 1)
    THEN b[1] + 1
    ELSE b[1]

\* The f32 of the rounded quotient m at the binary exponent e: a subnormal
\* number below 2^-126, and a carry out of the 24 bits moves to the next
\* exponent.
PackF32(sign, e, m) ==
    IF e < -126 THEN F32(sign, m \div 8388608, m % 8388608)
    ELSE IF m < 16777216 THEN F32(sign, e + 127, m - 8388608)
    ELSE IF e = 127 THEN F32_INFINITY(sign)
    ELSE F32(sign, e + 128, 0)

\* The f32 nearest to the scaled pair n: a normal number keeps 23 bits
\* after the leading one, a subnormal number the bits down to 2^-149.
RoundF32(sign, n) ==
    IF n[3] > 127 THEN F32_INFINITY(sign)
    ELSE IF n[3] < -150 THEN F32_ZERO(sign)
    ELSE IF n[3] = -150 THEN (IF n[1] = n[2] THEN F32_ZERO(sign) ELSE F32(sign, 0, 1))
    ELSE PackF32(sign, n[3],
                 Rounded(QuotientBits(1, BigSub(n[1], n[2]), n[2],
                                      IF n[3] >= -126 THEN 23 ELSE 149 + n[3]),
                         n[2]))

\* The f32 nearest to num/den (ties to even), num, den > 0; beyond the
\* largest finite value the result is infinite.
NearestF32(sign, num, den) == RoundF32(sign, Normalise(num, den))

\* The value of the digits sd, without leading zeros, times 10^e10.  A
\* value of 10^39 or more is beyond every finite f32, a value below 10^-46
\* is nearest to zero.
DecimalValue(sign, sd, e10) ==
    IF sd = << >> THEN F32_ZERO(sign)
    ELSE IF Len(sd) + e10 > 39 THEN F32_INFINITY(sign)
    ELSE IF Len(sd) + e10 < -45 THEN F32_ZERO(sign)
    ELSE NearestF32(sign,
                    BigTimesPow10From(<< IF e10 >= 0 THEN e10 ELSE 0,
                                         BigOfDigitsFrom(sd, << 1, << >> >>) >>),
                    BigTimesPow10From(<< IF e10 >= 0 THEN 0 ELSE 0 - e10, << 1 >> >>))

\* The value of digits * 10^e10.
DecimalToF32(sign, digits, e10) == DecimalValue(sign, StripZeros(digits), e10)

\* The digits of a decimal exponent: a further digit is taken in while the
\* number is below 65536.
RECURSIVE AccumExponent(_, _, _)
AccumExponent(s, i, acc) ==
    IF i > Len(s) THEN acc
    ELSE AccumExponent(s, i + 1, IF acc < 65536 THEN 10 * acc + DigitVal(s[i]) ELSE acc)

\* The decimal exponent after e: an optional sign and one or more digits.
read_exponent(s) ==
    LET signed == s # << >> /\ s[1] \in {"+", "-"}
        ds == IF signed THEN Drop(s, 1) ELSE s
        mag == AccumExponent(ds, 1, 0)
    IN  IF ds = << >> \/ ~AllDigits(ds) THEN Err
        ELSE IF signed /\ s[1] = "-" THEN Ok(0 - mag) ELSE Ok(mag)

\* f32::from_str:
\*   Float  ::= Sign? ( inf | infinity | nan | Number )   (case-insensitive)
\*   Number ::= ( Digit+ | Digit+ . Digit* | Digit* . Digit+ ) Exp?
\*   Exp    ::= e Sign? Digit+
f32_from_str(raw) ==
    LET signed == raw # << >> /\ raw[1] \in {"+", "-"}
        sign == IF signed /\ raw[1] = "-" THEN 1 ELSE 0
        body == IF signed THEN Drop(raw, 1) ELSE raw
        low == LowerText(body)
        es == Positions(low, "e")
        mtext == IF es = {} THEN body ELSE Take(body, Min(es) - 1)
        exp == IF es = {} THEN Ok(0) ELSE read_exponent(Drop(body, Min(es)))
        dots == Positions(mtext, ".")
        ipart == IF dots = {} THEN mtext ELSE Take(mtext, Min(dots) - 1)
        fpart == IF dots = {} THEN << >> ELSE Drop(mtext, Min(dots))
    IN  IF body = << >> THEN Err
        ELSE IF low = << "i", "n", "f" >>
                \/ low = << "i", "n", "f", "i", "n", "i", "t", "y" >>
             THEN Ok(F32_INFINITY(sign))
        ELSE IF low = << "n", "a", "n" >> THEN Ok(F32_NAN(sign))
        ELSE IF ~exp.ok THEN Err
        ELSE IF ~AllDigits(ipart) \/ ~AllDigits(fpart) THEN Err
        ELSE IF Len(ipart) + Len(fpart) = 0 THEN Err
        ELSE Ok(DecimalToF32(sign, ipart \o fpart, exp.val - Len(fpart)))

-----------------------------------------------------------------------------
(* VariantFlag: a bit set over the six representations, held in a u8 *)

BOOL_BIT == 0
INT_BIT == 1
FLOAT_BIT == 2
SOCKET_BIT == 3
PATH_BIT == 4
STRING_BIT == 5

\* a | b on bit sets below 2^6
RECURSIVE BitOr(_, _, _)
BitOr(a, b, n) ==
    IF n = 0 THEN 0
    ELSE (IF a % 2 = 1 \/ b % 2 = 1 THEN 1 ELSE 0) + 2 * BitOr(a \div 2, b \div 2, n - 1)

new_unit == 0
or_bool(self) == BitOr(Pow2(BOOL_BIT), self, 8)
or_int(self) == BitOr(Pow2(INT_BIT), self, 8)
or_socket(self) == BitOr(Pow2(SOCKET_BIT), self, 8)
or_path(self) == BitOr(Pow2(PATH_BIT), self, 8)
or_string(self) == BitOr(Pow2(STRING_BIT), self, 8)

\* self.0 >> bit & 1 != 0
check_bit(self, bit) == (self \div Pow2(bit)) % 2 # 0

bool_allowed(self) == check_bit(self, BOOL_BIT)
int_allowed(self) == check_bit(self, INT_BIT)
float_allowed(self) == check_bit(self, FLOAT_BIT)
socket_allowed(self) == check_bit(self, SOCKET_BIT)
path_allowed(self) == check_bit(self, PATH_BIT)
string_allowed(self) == check_bit(self, STRING_BIT)

\* A variant of is_unit that takes no constraint for the unit constraint.
is_unit_never(self) == FALSE

is_unit(self) == self = 0

\* The Variant enum: a tag and the value held.
VariantBool(b) == [tag |-> "Bool", val |-> b]
VariantInt(i) == [tag |-> "Int", val |-> i]
VariantFloat(f) == [tag |-> "Float", val |-> f]
VariantSocket(a) == [tag |-> "Socket", val |-> a]
VariantPath(p) == [tag |-> "Path", val |-> p]
VariantString(t) == [tag |-> "String", val |-> t]

\* A variant of parse that falls back to String whether or not the
\* constraint allows it.
parse_string_fallback(self, raw, h) ==
    IF bool_allowed(self) /\ bool_from_str(raw).ok
    THEN Some(VariantBool(bool_from_str(raw).val))
    ELSE IF int_allowed(self) /\ i32_from_str(raw).ok
    THEN Some(VariantInt(i32_from_str(raw).val))
    ELSE IF float_allowed(self) /\ f32_from_str(raw).ok
    THEN Some(VariantFloat(f32_from_str(raw).val))
    ELSE IF socket_allowed(self) /\ to_socket_addrs(raw, h).ok
    THEN Some(VariantSocket(to_socket_addrs(raw, h).val))
    ELSE IF path_allowed(self)
    THEN Some(VariantPath(raw))
    ELSE Some(VariantString(raw))

\* A variant of parse that tries f32 before i32.
parse_float_first(self, raw, h) ==
    IF bool_allowed(self) /\ bool_from_str(raw).ok
    THEN Some(VariantBool(bool_from_str(raw).val))
    ELSE IF float_allowed(self) /\ f32_from_str(raw).ok
    THEN Some(VariantFloat(f32_from_str(raw).val))
    ELSE IF int_allowed(self) /\ i32_from_str(raw).ok
    THEN Some(VariantInt(i32_from_str(raw).val))
    ELSE IF socket_allowed(self) /\ to_socket_addrs(raw, h).ok
    THEN Some(VariantSocket(to_socket_addrs(raw, h).val))
    ELSE IF path_allowed(self)
    THEN Some(VariantPath(raw))
    ELSE IF string_allowed(self)
    THEN Some(VariantString(raw))
    ELSE None

\* VariantFlag::parse, with the environment's host table h that
\* to_socket_addrs consults.
parse(self, raw, h) ==
    IF bool_allowed(self) /\ bool_from_str(raw).ok
    THEN Some(VariantBool(bool_from_str(raw).val))
    ELSE IF int_allowed(self) /\ i32_from_str(raw).ok
    THEN Some(VariantInt(i32_from_str(raw).val))
    ELSE IF float_allowed(self) /\ f32_from_str(raw).ok
    THEN Some(VariantFloat(f32_from_str(raw).val))
    ELSE IF socket_allowed(self) /\ to_socket_addrs(raw, h).ok
    THEN Some(VariantSocket(to_socket_addrs(raw, h).val))
    ELSE IF path_allowed(self)
    THEN Some(VariantPath(raw))
    ELSE IF string_allowed(self)
    THEN Some(VariantString(raw))
    ELSE None

-----------------------------------------------------------------------------
(* Variant::total_cmp *)

\* Ord::cmp on integers, giving an Ordering.
int_cmp(a, b) == IF a < b THEN "Less" ELSE IF a > b THEN "Greater" ELSE "Equal"

\* bool: false < true
bool_cmp(a, b) == int_cmp(IF a THEN 1 ELSE 0, IF b THEN 1 ELSE 0)

\* Lexicographic order of two sequences of integers.
RECURSIVE seq_cmp(_, _)
seq_cmp(a, b) ==
    IF a = << >> /\ b = << >> THEN "Equal"
    ELSE IF a = << >> THEN "Less"
    ELSE IF b = << >> THEN "Greater"
    ELSE IF a[1] # b[1] THEN int_cmp(a[1], b[1])
    ELSE seq_cmp(Tail(a), Tail(b))

\* str / OsStr cmp: the order of the bytes.
text_cmp(a, b) ==
    seq_cmp([i \in 1..Len(a) |-> Code(a[i])], [i \in 1..Len(b) |-> Code(b[i])])

\* f32::total_cmp: the bits as i32, the low 31 bits flipped when negative.
F32Key(f) ==
    LET mag == f.exp * 8388608 + f.mant
    IN  IF f.sign = 1 THEN (0 - mag) - 1 ELSE mag

f32_total_cmp(a, b) == int_cmp(F32Key(a), F32Key(b))

\* SocketAddr cmp: V4 before V6, then the address, then the port, and for
\* two V6 addresses then the flowinfo and the scope id.
socket_addr_cmp(a, b) ==
    IF a.fam # b.fam THEN int_cmp(a.fam, b.fam)
    ELSE IF a.ip # b.ip THEN seq_cmp(a.ip, b.ip)
    ELSE IF a.port # b.port THEN int_cmp(a.port, b.port)
    ELSE IF a.fam = 4 THEN "Equal"
    ELSE IF a.flowinfo # b.flowinfo THEN int_cmp(a.flowinfo, b.flowinfo)
    ELSE seq_cmp(a.scope_id, b.scope_id)

\* The (rank, reference) pair the first match of total_cmp builds for self.
lhs_pair(self, other) ==
    CASE self.tag = "Bool" -> << 0, self >>
      [] self.tag = "Int" -> << 1, self >>
      [] self.tag = "Float" -> << 2, self >>
      [] self.tag = "Socket" -> << 3, self >>
      [] self.tag = "Path" -> << 4, self >>
      [] self.tag = "String" -> << 5, self >>

\* The pair the second match builds for other; its last three arms hold
\* self in the second slot, as the source does.
rhs_pair(self, other) ==
    CASE other.tag = "Bool" -> << 0, other >>
      [] other.tag = "Int" -> << 1, other >>
      [] other.tag = "Float" -> << 2, other >>
      [] other.tag = "Socket" -> << 3, self >>
      [] other.tag = "Path" -> << 4, self >>
      [] other.tag = "String" -> << 5, self >>

\* A variant of total_cmp whose rank comparison has its operands exchanged.
total_cmp_reversed(self, other) ==
    LET lhs == lhs_pair(self, other)
        rhs == rhs_pair(self, other)
    IN  IF lhs[1] = rhs[1]
        THEN CASE self.tag = "Bool" /\ other.tag = "Bool" -> bool_cmp(self.val, other.val)
               [] self.tag = "Int" /\ other.tag = "Int" -> int_cmp(self.val, other.val)
               [] self.tag = "Float" /\ other.tag = "Float" -> f32_total_cmp(self.val, other.val)
               [] self.tag = "Socket" /\ other.tag = "Socket" -> socket_addr_cmp(self.val, other.val)
               [] self.tag = "Path" /\ other.tag = "Path" -> text_cmp(self.val, other.val)
               [] self.tag = "String" /\ other.tag = "String" -> text_cmp(self.val, other.val)
        ELSE int_cmp(rhs[1], lhs[1])

\* Variant::total_cmp
total_cmp(self, other) ==
    LET lhs == lhs_pair(self, other)
        rhs == rhs_pair(self, other)
    IN  IF lhs[1] = rhs[1]
        THEN CASE self.tag = "Bool" /\ other.tag = "Bool" -> bool_cmp(self.val, other.val)
               [] self.tag = "Int" /\ other.tag = "Int" -> int_cmp(self.val, other.val)
               [] self.tag = "Float" /\ other.tag = "Float" -> f32_total_cmp(self.val, other.val)
               [] self.tag = "Socket" /\ other.tag = "Socket" -> socket_addr_cmp(self.val, other.val)
               [] self.tag = "Path" /\ other.tag = "Path" -> text_cmp(self.val, other.val)
               [] self.tag = "String" /\ other.tag = "String" -> text_cmp(self.val, other.val)
        ELSE int_cmp(lhs[1], rhs[1])

-----------------------------------------------------------------------------
(* Args::from_iter *)

\* struct FlagDefinition
FlagDefinition(name, abbreviation, allowed_type) ==
    [name |-> name, abbreviation |-> abbreviation, allowed_type |-> allowed_type]

\* ArgumentError: the message, as its kind and the values it interpolates.
\*   EmptyArgumentList       "Argument count is 0"
\*   UnknownFlag             "--{input_name} does not match any known flag name"
\*   UnknownAbbreviation     "-{input_char} does not match any known flag abbreviation"
\*   MissingFlagValue        "Unexpected end of arguments, {name} needs a value"
\*   InvalidFlagValue        "Argument {value} at position {index} is not a valid type for --{name}"
\*   TooManyPositionals      "There are too many positional arguments"
\*   InvalidPositionalValue  "Positional argument {pos_index} at position {index} cannot be parsed as type {allowed_types}"
\*   TooFewPositionals       "Not enough positional arguments were supplied"
ArgumentError(kind, info) == [kind |-> kind, info |-> info]

\* Result<_, ArgumentError>
Fail(e) == [ok |-> FALSE, err |-> e]

\* Iterator::find: the first definition satisfying the test, by its index.
FirstIndex(S) == IF S = {} THEN None ELSE Some(Min(S))

\* A variant of match_flag_definition that lets an unknown abbreviation
\* through as a positional candidate.
match_flag_definition_lenient(defs, arg) ==
    IF starts_with(arg, << "-", "-" >>)
    THEN LET input_name == Drop(arg, 2)
             found == FirstIndex({i \in 1..Len(defs) : defs[i].name = input_name})
         IN  IF found.some THEN Ok(Some(defs[found.val]))
             ELSE Fail(ArgumentError("UnknownFlag", << input_name >>))
    ELSE IF starts_with(arg, << "-" >>) /\ Len(arg) = 2
    THEN LET input_char == arg[Len(arg)]
             found == FirstIndex({i \in 1..Len(defs) :
                          defs[i].abbreviation.some
                          /\ input_char = defs[i].abbreviation.val})
         IN  IF found.some THEN Ok(Some(defs[found.val]))
             ELSE Ok(None)
    ELSE Ok(None)

\* fn match_flag_definition
match_flag_definition(defs, arg) ==
    IF starts_with(arg, << "-", "-" >>)
    THEN LET input_name == Drop(arg, 2)
             found == FirstIndex({i \in 1..Len(defs) : defs[i].name = input_name})
         IN  IF found.some THEN Ok(Some(defs[found.val]))
             ELSE Fail(ArgumentError("UnknownFlag", << input_name >>))
    ELSE IF starts_with(arg, << "-" >>) /\ Len(arg) = 2
    THEN LET input_char == arg[Len(arg)]
             found == FirstIndex({i \in 1..Len(defs) :
                          defs[i].abbreviation.some
                          /\ input_char = defs[i].abbreviation.val})
         IN  IF found.some THEN Ok(Some(defs[found.val]))
             ELSE Fail(ArgumentError("UnknownAbbreviation", << input_char >>))
    ELSE Ok(None)

\* HashMap::new
hash_new == << >>

\* A variant of insert that keeps the entry a key already has.
hash_insert_keep(m, k, v) == [x \in (DOMAIN m) \cup {k} |-> IF x \in DOMAIN m THEN m[x] ELSE v]

\* HashMap::insert: the entry of key k is replaced.
hash_insert(m, k, v) == [x \in (DOMAIN m) \cup {k} |-> IF x = k THEN v ELSE m[x]]

\* A variant of the lookup that picks the constraint by the place of the
\* token in the stream.
positional_constraint_by_index(types, pos, index) ==
    IF Len(pos) + 1 <= Len(types) THEN Some(types[((index - 1) % Len(types)) + 1]) ELSE None

\* positional_types.get(positional.len()); index is the enumerate index of
\* the token, which the lookup does not use.
positional_constraint(types, pos, index) ==
    IF Len(pos) + 1 <= Len(types) THEN Some(types[Len(pos) + 1]) ELSE None

\* A variant of next that yields an empty text once the iterator is exhausted.
args_next_or_default(a, n) ==
    IF n < Len(a) THEN Some([index |-> n, item |-> a[n + 1]])
    ELSE Some([index |-> n, item |-> << >>])

\* args.next() on the enumerated iterator that has yielded n items.
args_next(a, n) ==
    IF n < Len(a) THEN Some([index |-> n, item |-> a[n + 1]]) ELSE None

\* A variant of the arity test that lets every count through.
arity_mismatch_never(pos, types) == FALSE

\* positional.len() != positional_types.len()
arity_mismatch(pos, types) == Len(pos) # Len(types)

\* struct Args
Args(bin, pos, nam) == [binary |-> bin, positional |-> pos, named |-> nam]

\* Args::get_positional and Args::get_named
get_positional(self, index) ==
    IF index + 1 \in 1..Len(self.positional) THEN Some(self.positional[index + 1]) ELSE None

get_named(self, name) ==
    IF name \in DOMAIN self.named THEN Some(self.named[name]) ELSE None

\* What from_iter has returned.
NotReturned == [state |-> "none"]
ReturnedOk(a) == [state |-> "Ok", args |-> a]
ReturnedErr(e) == [state |-> "Err", error |-> e]

\* History: how the pass used a token.
Used(use, name) == [use |-> use, name |-> name]
Unseen == Used("unseen", << >>)

\* The state of one call of from_iter on the stream a.
InitSt(a) ==
    [pc |-> "start", cursor |-> 0, binary |-> << >>, named |-> hash_new,
     positional |-> << >>, ret |-> NotReturned, cls |-> [i \in 1..Len(a) |-> Unseen]]

\* A variant of return that records the result and lets the pass go on.
ReturnContinue(st, r) == [st EXCEPT !.ret = r]

\* return: the locals are dropped or moved into the result.
Return(st, r) ==
    [st EXCEPT !.pc = "done", !.ret = r, !.binary = << >>, !.named = hash_new,
               !.positional = << >>]

\* Lines 43-48: take the binary off the enumerated iterator.
start_step(st, a) ==
    IF Len(a) = 0
    THEN Return(st, ReturnedErr(ArgumentError("EmptyArgumentList", << >>)))
    ELSE [st EXCEPT !.pc = "loop", !.cursor = 1, !.binary = a[1],
                    !.cls[1] = Used("binary", << >>)]

\* A variant of the key that takes the text the user gave after the dashes.
named_key_as_given(def, arg) ==
    IF starts_with(arg, << "-", "-" >>) THEN Drop(arg, 2) ELSE Drop(arg, 1)

\* matched_definition.name.clone(): the key of the entry is the name of the
\* definition, whichever form of the flag arg has.
named_key(def, arg) == def.name

\* Lines 49-83: one iteration of the while-let loop, entered when
\* args.next() yields an item.
loop_step(st, a, types, defs, h) ==
    LET index == args_next(a, st.cursor).val.index
        arg == args_next(a, st.cursor).val.item
        m == match_flag_definition(defs, arg)
        took == [st EXCEPT !.cursor = index + 1]
    IN  IF ~m.ok
        THEN Return([took EXCEPT !.cls[index + 1] = Used("rejected", << >>)],
                    ReturnedErr(m.err))
        ELSE IF m.val.some
        THEN LET def == m.val.val
                 flagged == [took EXCEPT !.cls[index + 1] = Used("flag", def.name)]
                 nxt == args_next(a, took.cursor)
             IN  IF is_unit(def.allowed_type)
                 THEN [flagged EXCEPT
                          !.named = hash_insert(st.named, named_key(def, arg), VariantBool(TRUE))]
                 ELSE IF ~nxt.some
                 THEN Return(flagged,
                          ReturnedErr(ArgumentError("MissingFlagValue", << def.name >>)))
                 ELSE LET vindex == nxt.val.index
                          value == nxt.val.item
                          p == parse(def.allowed_type, value, h)
                          valued == [flagged EXCEPT !.cursor = vindex + 1,
                                        !.cls[vindex + 1] = Used("value", def.name)]
                      IN  IF ~p.some
                          THEN Return(valued, ReturnedErr(ArgumentError("InvalidFlagValue",
                                          << value, vindex, def.name >>)))
                          ELSE [valued EXCEPT
                                   !.named = hash_insert(st.named, named_key(def, arg), p.val)]
        ELSE LET pos_index == Len(st.positional)
                 allowed_types == positional_constraint(types, st.positional, index)
                 bound == [took EXCEPT !.cls[index + 1] = Used("positional", << >>)]
             IN  IF ~allowed_types.some
                 THEN Return(bound,
                          ReturnedErr(ArgumentError("TooManyPositionals", << >>)))
                 ELSE LET p == parse(allowed_types.val, arg, h)
                      IN  IF ~p.some
                          THEN Return(bound, ReturnedErr(ArgumentError("InvalidPositionalValue",
                                          << pos_index, index, allowed_types.val >>)))
                          ELSE [bound EXCEPT !.positional = Append(st.positional, p.val)]

\* Lines 85-95: the iterator is exhausted.
finish_step(st, types) ==
    IF arity_mismatch(st.positional, types)
    THEN Return(st, ReturnedErr(ArgumentError("TooFewPositionals", << >>)))
    ELSE Return(st, ReturnedOk(Args(st.binary, st.positional, st.named)))

\* The whole call, as the composition of its steps.
RECURSIVE run(_, _, _, _, _)
run(st, a, types, defs, h) ==
    IF st.pc = "done" THEN st
    ELSE IF st.pc = "start" THEN run(start_step(st, a), a, types, defs, h)
    ELSE IF args_next(a, st.cursor).some
    THEN run(loop_step(st, a, types, defs, h), a, types, defs, h)
    ELSE run(finish_step(st, types), a, types, defs, h)

from_iter(a, types, defs, h) == run(InitSt(a), a, types, defs, h)

-----------------------------------------------------------------------------
(* The inputs the model draws *)

\* The largest number of tokens after the binary.
MaxArgs == 4

\* VariantFlag::bool(), int(), float(), socket(), path(), string()
bool == Pow2(BOOL_BIT)
int == Pow2(INT_BIT)
float == Pow2(FLOAT_BIT)
socket == Pow2(SOCKET_BIT)
path == Pow2(PATH_BIT)
string == Pow2(STRING_BIT)

BinaryName == << "p" >>
NameVerbose == << "v", "b" >>
NameN == << "n" >>
HostH == << "h" >>

TokLongN == << "-", "-", "n" >>
TokShortN == << "-", "n" >>
TokShortV == << "-", "v" >>
TokDashDash == << "-", "-" >>
TokMinusOne == << "-", "1" >>
TokSeven == << "7" >>
TokMinusTwelve == << "-", "1", "2" >>
TokHost == << "h", ":", "1" >>

Vocabulary ==
    {TokLongN, TokShortN, TokShortV, TokDashDash, TokMinusOne, TokSeven,
     TokMinusTwelve, TokHost}

SeqsUpTo(S, n) == UNION {[1..k -> S] : k \in 0..n}

\* The empty stream and the streams of a binary and at most MaxArgs tokens.
Streams == {<< >>} \cup {<< BinaryName >> \o t : t \in SeqsUpTo(Vocabulary, MaxArgs)}

Schemas ==
    { [types |-> << >>,
       defs |-> << FlagDefinition(NameVerbose, Some("v"), new_unit),
                   FlagDefinition(NameN, Some("n"), or_string(or_socket(int))) >>],
      [types |-> << int >>,
       defs |-> << FlagDefinition(NameVerbose, Some("v"), new_unit),
                   FlagDefinition(NameN, Some("n"), int) >>],
      [types |-> << or_string(or_int(float)), or_path(socket) >>,
       defs |-> << FlagDefinition(NameN, None, or_string(socket)),
                   FlagDefinition(NameVerbose, Some("v"), new_unit) >>],
      [types |-> << string >>,
       defs |-> << >>] }

\* The environment either resolves the host h or does not.
HostTables ==
    { [x \in {HostH} |-> None],
      [x \in {HostH} |-> Some(SocketAddrV4(<< 10, 0, 0, 1 >>, 0))] }

-----------------------------------------------------------------------------
(* The state machine of one call of Args::from_iter *)

St ==
    [pc |-> pc, cursor |-> cursor, binary |-> binary, named |-> named,
     positional |-> positional, ret |-> ret, cls |-> cls]

SetSt(n) ==
    /\ pc' = n.pc
    /\ cursor' = n.cursor
    /\ binary' = n.binary
    /\ named' = n.named
    /\ positional' = n.positional
    /\ ret' = n.ret
    /\ cls' = n.cls

Init ==
    /\ args \in Streams
    /\ \E s \in Schemas : positional_types = s.types /\ flag_definitions = s.defs
    /\ hosts \in HostTables
    /\ pc = "start"
    /\ cursor = 0
    /\ binary = << >>
    /\ named = hash_new
    /\ positional = << >>
    /\ ret = NotReturned
    /\ cls = [i \in 1..Len(args) |-> Unseen]
    /\ inp = << >>
    /\ out = << >>

Start ==
    /\ pc = "start"
    /\ SetSt(start_step(St, args))
    /\ UNCHANGED << args, positional_types, flag_definitions, hosts, inp, out >>

Iterate ==
    /\ pc = "loop"
    /\ args_next(args, cursor).some
    /\ SetSt(loop_step(St, args, positional_types, flag_definitions, hosts))
    /\ UNCHANGED << args, positional_types, flag_definitions, hosts, inp, out >>

Finish ==
    /\ pc = "loop"
    /\ ~args_next(args, cursor).some
    /\ SetSt(finish_step(St, positional_types))
    /\ UNCHANGED << args, positional_types, flag_definitions, hosts, inp, out >>

Next == Start \/ Iterate \/ Finish

Spec == Init /\ [][Next]_vars

-----------------------------------------------------------------------------
(* Properties of Args::from_iter *)

N == Len(positional_types)

\* The token indices the pass has classified as a flag, a value, a positional.
FlagIdx == {i \in 1..Len(args) : cls[i].use = "flag"}
ValueIdx == {i \in 1..Len(args) : cls[i].use = "value"}
PosIdx == {i \in 1..Len(args) : cls[i].use = "positional"}

\* C1: during the pass the number of accumulated positional values never
\* exceeds the number N of declared positional constraints, and when
\* from_iter returns Ok the positional sequence has length exactly N:
\* get_positional(i) is present for i < N and absent for i >= N.
C1_PositionalCount ==
    /\ Len(positional) <= N
    /\ ret.state = "Ok" =>
          /\ Len(ret.args.positional) = N
          /\ \A i \in 0..(N + MaxArgs) : get_positional(ret.args, i).some <=> i < N

\* An Ok result with two positional values bound around a flag.
C1_Witness ==
    /\ ret.state = "Ok"
    /\ N = 2
    /\ get_positional(ret.args, 1).some
    /\ FlagIdx # {}

-----------------------------------------------------------------------------
(* Calls of VariantFlag::parse on drawn constraints and texts *)

\* Every value of a VariantFlag built from the six bits.
AllVariantFlags == 0..63

ParseTexts ==
    { << >>,
      << "t", "r", "u", "e" >>,
      << "f", "a", "l", "s", "e" >>,
      << "T", "r", "u", "e" >>,
      << "7" >>,
      << "-", "1", "2" >>,
      << "+", "7" >>,
      << "2", "1", "4", "7", "4", "8", "3", "6", "4", "8" >>,
      << "1", ".", "5" >>,
      << "1", "e", "2" >>,
      << "1", "e", "1", "0" >>,
      << "[", ":", ":", "1", "]", ":", "8", "0" >>,
      << "n", "a", "n" >>,
      << "1", ".", "2", ".", "3", ".", "4", ":", "8", "0" >>,
      << "h", ":", "1" >>,
      << "h", ":", "x" >>,
      << "H", ":", "1" >>,
      << "7", ":", "7" >>,
      << "1", "2", "7", ".", "1", ":", "8", "0" >>,
      << "f", "e", "8", "0", ":", ":", "1", "%", "l", "o", ":", "8" >>,
      << "f", "e", "8", "0", ":", ":", "1", "%", "l", "o", ":", "x", ":", "8" >>,
      << "7", ":", "7", ":", "7" >>,
      << "a", "/", "b" >> }

\* The variables of the from_iter machine, at rest.
MachineIdle ==
    /\ args = << >>
    /\ positional_types = << >>
    /\ flag_definitions = << >>
    /\ cursor = 0
    /\ binary = << >>
    /\ named = hash_new
    /\ positional = << >>
    /\ ret = NotReturned
    /\ cls = << >>

InitParse ==
    /\ MachineIdle
    /\ hosts \in HostTables
    /\ pc = "call"
    /\ \E c \in AllVariantFlags, raw \in ParseTexts : inp = [self |-> c, raw |-> raw]
    /\ out = << >>

ParseCall ==
    /\ pc = "call"
    /\ out' = parse(inp.self, inp.raw, hosts)
    /\ pc' = "returned"
    /\ UNCHANGED << args, positional_types, flag_definitions, hosts, cursor, binary,
                    named, positional, ret, cls, inp >>

NextParse == ParseCall

SpecParse == InitParse /\ [][NextParse]_vars

\* The representations in the order parse tries them.
Precedence == << "Bool", "Int", "Float", "Socket", "Path", "String" >>

\* The set of representations a constraint allows.
AllowedTags(c) ==
    {t \in {"Bool"} : bool_allowed(c)} \cup {t \in {"Int"} : int_allowed(c)}
    \cup {t \in {"Float"} : float_allowed(c)} \cup {t \in {"Socket"} : socket_allowed(c)}
    \cup {t \in {"Path"} : path_allowed(c)} \cup {t \in {"String"} : string_allowed(c)}

\* The conversion of one representation applied to a text.
Convert(t, raw, h) ==
    CASE t = "Bool" -> bool_from_str(raw)
      [] t = "Int" -> i32_from_str(raw)
      [] t = "Float" -> f32_from_str(raw)
      [] t = "Socket" -> to_socket_addrs(raw, h)
      [] t = "Path" -> Ok(raw)
      [] t = "String" -> Ok(raw)

\* The positions in Precedence that c allows and that accept raw.
Candidates(c, raw, h) ==
    {i \in 1..6 : Precedence[i] \in AllowedTags(c) /\ Convert(Precedence[i], raw, h).ok}

\* C2: parse(c, raw) returns the value of the first representation, in the
\* order Bool, Int, Float, Socket, Path, String, that c allows and that
\* accepts raw; it returns no match exactly when no allowed representation
\* accepts raw, so never when c allows Path or String; and it yields String
\* only if no other allowed representation accepts raw.
C2_Precedence ==
    pc = "returned" =>
        LET cand == Candidates(inp.self, inp.raw, hosts)
        IN  /\ out.some <=> cand # {}
            /\ cand # {} =>
                  /\ out.val.tag = Precedence[Min(cand)]
                  /\ out.val.val = Convert(Precedence[Min(cand)], inp.raw, hosts).val
            /\ (path_allowed(inp.self) \/ string_allowed(inp.self)) => out.some
            /\ (out.some /\ out.val.tag = "String") => cand = {6}

\* A text that Int, Float and String all accept resolved as Int.
C2_Witness ==
    /\ pc = "returned"
    /\ inp.raw = << "7" >>
    /\ {"Int", "Float", "String"} \subseteq AllowedTags(inp.self)
    /\ out.some
    /\ out.val.tag = "Int"
    /\ out.val.val = 7

-----------------------------------------------------------------------------
(* Calls of Variant::total_cmp on drawn values *)

CmpValues ==
    << VariantBool(FALSE), VariantBool(TRUE),
       VariantInt(-5), VariantInt(5),
       VariantFloat(F32(1, 127, 4194304)), VariantFloat(F32_ZERO(1)),
       VariantFloat(F32_ZERO(0)), VariantFloat(F32(0, 127, 0)), VariantFloat(F32_NAN(0)),
       VariantSocket(SocketAddrV4(<< 1, 2, 3, 4 >>, 80)),
       VariantSocket(SocketAddrV4(<< 1, 2, 3, 4 >>, 81)),
       VariantSocket(SocketAddrV4(<< 10, 0, 0, 1 >>, 1)),
       VariantSocket(SocketAddrV6(<< 0, 0, 0, 0, 0, 0, 0, 1 >>, 1, 0, << 0, 0 >>)),
       VariantSocket(SocketAddrV6(<< 65152, 0, 0, 0, 0, 0, 0, 1 >>, 80, 0, << 0, 1 >>)),
       VariantSocket(SocketAddrV6(<< 65152, 0, 0, 0, 0, 0, 0, 1 >>, 80, 0, << 0, 2 >>)),
       VariantPath(<< "a" >>), VariantPath(<< "a", "b" >>), VariantPath(<< "b" >>),
       VariantString(<< "a" >>), VariantString(<< "B" >>) >>

InitCmp ==
    /\ MachineIdle
    /\ hosts \in {h \in HostTables : ~h[HostH].some}
    /\ pc = "call"
    /\ \E i \in DOMAIN CmpValues, j \in DOMAIN CmpValues, k \in DOMAIN CmpValues :
          inp = << CmpValues[i], CmpValues[j], CmpValues[k] >>
    /\ out = << >>

CmpCall ==
    /\ pc = "call"
    /\ out' = [aa |-> total_cmp(inp[1], inp[1]),
               ab |-> total_cmp(inp[1], inp[2]),
               ba |-> total_cmp(inp[2], inp[1]),
               bc |-> total_cmp(inp[2], inp[3]),
               ac |-> total_cmp(inp[1], inp[3])]
    /\ pc' = "returned"
    /\ UNCHANGED << args, positional_types, flag_definitions, hosts, cursor, binary,
                    named, positional, ret, cls, inp >>

NextCmp == CmpCall

SpecCmp == InitCmp /\ [][NextCmp]_vars

Rank(t) == CHOOSE i \in 1..6 : Precedence[i] = t

Reverse(o) == IF o = "Less" THEN "Greater" ELSE IF o = "Greater" THEN "Less" ELSE o

\* The order of a representation on two values that both hold it.
OwnOrder(a, b) ==
    CASE a.tag = "Bool" -> bool_cmp(a.val, b.val)
      [] a.tag = "Int" -> int_cmp(a.val, b.val)
      [] a.tag = "Float" -> f32_total_cmp(a.val, b.val)
      [] a.tag = "Socket" -> socket_addr_cmp(a.val, b.val)
      [] a.tag = "Path" -> text_cmp(a.val, b.val)
      [] a.tag = "String" -> text_cmp(a.val, b.val)

\* C9: total_cmp is a total order on Variants: defined for every pair, equal
\* on a value and itself, antisymmetric and transitive; it ranks first by tag
\* in the order Bool < Int < Float < Socket < Path < String, so that for
\* different tags the result depends only on the two tags (also when the
\* right-hand operand is a Socket, Path or String), and for equal tags by the
\* order of the representation.
C9_TotalOrder ==
    pc = "returned" =>
        LET a == inp[1]
            b == inp[2]
            le(o) == o \in {"Less", "Equal"}
        IN  /\ \A k \in DOMAIN out : out[k] \in {"Less", "Equal", "Greater"}
            /\ out.aa = "Equal"
            /\ out.ab = Reverse(out.ba)
            /\ out.ab = "Equal" => a = b
            /\ (le(out.ab) /\ le(out.bc)) => le(out.ac)
            /\ (le(out.ab) /\ le(out.bc) /\ out.ac = "Equal") =>
                  (out.ab = "Equal" /\ out.bc = "Equal")
            /\ a.tag # b.tag => out.ab = int_cmp(Rank(a.tag), Rank(b.tag))
            /\ a.tag = b.tag => out.ab = OwnOrder(a, b)

\* A Float compared with a Path, and the Path with a String.
C9_Witness ==
    /\ pc = "returned"
    /\ inp[1].tag = "Float"
    /\ inp[2].tag = "Path"
    /\ inp[3].tag = "String"
    /\ out.ab = "Less"
    /\ out.bc = "Less"
    /\ out.ac = "Less"

-----------------------------------------------------------------------------
(* Further properties of Args::from_iter *)

\* The declared flag with a name (names are unique in the drawn schemas).
DefOf(name) ==
    flag_definitions[CHOOSE i \in 1..Len(flag_definitions) : flag_definitions[i].name = name]

\* The unit constraint allows no representation.
Unit(c) == AllowedTags(c) = {}

\* Some representation c allows accepts the text.
Resolves(c, raw) == Candidates(c, raw, hosts) # {}

\* The shapes of section 4.3: a token starting with -- , and a token of two
\* characters starting with - that is not of the first shape.
LongShape(t) == Len(t) >= 2 /\ t[1] = "-" /\ t[2] = "-"
ShortShape(t) == ~LongShape(t) /\ Len(t) = 2 /\ t[1] = "-"

ReturnedError(kind, info) ==
    /\ ret.state = "Err"
    /\ ret.error.kind = kind
    /\ ret.error.info = info

\* C4: a token matched to a flag with the unit constraint records Bool(true)
\* under the name of the flag and consumes no following token, the next token
\* being classified by its own shape; a token matched to a flag with a
\* non-unit constraint consumes exactly the next token as its value, and that
\* token is not classified as a flag or a positional, whatever its text.
C4_UnitAndValueFlags ==
    /\ \A i \in FlagIdx :
          LET name == cls[i].name
          IN  IF Unit(DefOf(name).allowed_type)
              THEN /\ pc = "loop" =>
                         (name \in DOMAIN named /\ named[name].tag = "Bool"
                          /\ named[name].val = TRUE)
                   /\ ret.state = "Ok" =>
                         (get_named(ret.args, name).some
                          /\ get_named(ret.args, name).val.tag = "Bool"
                          /\ get_named(ret.args, name).val.val = TRUE)
                   /\ i + 1 <= cursor =>
                         /\ cls[i + 1].use \in {"flag", "rejected", "positional"}
                         /\ cls[i + 1].use = "positional" <=>
                               (~LongShape(args[i + 1]) /\ ~ShortShape(args[i + 1]))
              ELSE i + 1 <= Len(args) =>
                      /\ cursor >= i + 1
                      /\ cls[i + 1] = Used("value", name)
    /\ \A i \in ValueIdx :
          /\ cls[i - 1].use = "flag"
          /\ ~Unit(DefOf(cls[i - 1].name).allowed_type)
          /\ i + 1 <= cursor => cls[i + 1].use # "value"

\* A unit flag followed by a positional, and a flag-shaped token taken as a value.
C4_Witness ==
    /\ \E i \in FlagIdx :
          /\ Unit(DefOf(cls[i].name).allowed_type)
          /\ i + 1 \in PosIdx
    /\ \E j \in ValueIdx : LongShape(args[j]) /\ cls[j].name \in DOMAIN named

\* C5: when a non-unit flag occurs more than once in a stream that parses,
\* by its name, its abbreviation or both, get_named(name) is the value
\* resolved from the token after its last occurrence, and nothing else.
C5_LastWriteWins ==
    ret.state = "Ok" =>
        \A name \in DOMAIN ret.args.named :
            LET d == DefOf(name)
                last == Max({i \in FlagIdx : cls[i].name = name})
                want == parse(d.allowed_type, args[last + 1], hosts)
                got == get_named(ret.args, name)
            IN  ~Unit(d.allowed_type) =>
                    /\ got.some
                    /\ want.some
                    /\ got.val.tag = want.val.tag
                    /\ got.val.val = want.val.val

\* The flag n given as --n and as -n with values that resolve differently.
C5_Witness ==
    /\ ret.state = "Ok"
    /\ \E i \in FlagIdx, j \in FlagIdx :
          /\ i < j
          /\ cls[i].name = cls[j].name
          /\ args[i] # args[j]
          /\ ~Unit(DefOf(cls[i].name).allowed_type)
          /\ args[i + 1] # args[j + 1]
          /\ j = Max({k \in FlagIdx : cls[k].name = cls[j].name})
          /\ parse(DefOf(cls[i].name).allowed_type, args[i + 1], hosts).val.tag
                # get_named(ret.args, cls[j].name).val.tag

\* C6: tokens are processed strictly left to right and from_iter returns the
\* error of the first failing step: the error is about the last token taken,
\* no token after it is examined, no token before it was rejected, the
\* too-few-positionals error comes only with the whole stream processed, and
\* an error carries no Args.
C6_FailFast ==
    /\ {i \in 1..Len(args) : cls[i].use # "unseen"} = 1..cursor
    /\ \A i \in 1..Len(args) : cls[i].use = "rejected" => (i = cursor /\ ret.state = "Err")
    /\ ret.state = "Err" =>
          /\ pc = "done"
          /\ DOMAIN ret = {"state", "error"}
          /\ LET e == ret.error
             IN  CASE e.kind = "EmptyArgumentList" -> Len(args) = 0
                   [] e.kind = "TooFewPositionals" ->
                         /\ cursor = Len(args)
                         /\ Cardinality(PosIdx) < N
                   [] e.kind = "UnknownFlag" ->
                         /\ cls[cursor].use = "rejected"
                         /\ e.info = << Drop(args[cursor], 2) >>
                   [] e.kind = "UnknownAbbreviation" ->
                         /\ cls[cursor].use = "rejected"
                         /\ e.info = << args[cursor][2] >>
                   [] e.kind = "MissingFlagValue" ->
                         /\ cursor = Len(args)
                         /\ cls[cursor].use = "flag"
                         /\ e.info = << cls[cursor].name >>
                   [] e.kind = "InvalidFlagValue" ->
                         /\ cls[cursor].use = "value"
                         /\ e.info = << args[cursor], cursor - 1, cls[cursor].name >>
                   [] e.kind = "TooManyPositionals" ->
                         /\ cls[cursor].use = "positional"
                         /\ Cardinality(PosIdx) = N + 1
                   [] e.kind = "InvalidPositionalValue" ->
                         /\ cls[cursor].use = "positional"
                         /\ e.info[1] = Cardinality(PosIdx) - 1
                         /\ e.info[2] = cursor - 1

\* A value that does not resolve, followed by tokens that would fail too.
C6_Witness ==
    /\ ret.state = "Err"
    /\ ret.error.kind = "InvalidFlagValue"
    /\ cursor + 2 <= Len(args)
    /\ args[cursor + 1] = TokDashDash
    /\ args[cursor + 2] = TokMinusOne

\* C7: every token after the binary that is not consumed as the value of a
\* flag is classified by its shape, the -- test first: a token starting with
\* -- is the flag of that name or, when no FlagDefinition has the name, fails
\* the parse with UnknownFlag; a two-character token starting with - is the
\* flag of that abbreviation or fails with UnknownAbbreviation; and exactly
\* the tokens of neither shape are bound as positionals.
C7_Classification ==
    /\ cursor >= 1 => cls[1].use = "binary"
    /\ \A i \in 2..cursor :
          cls[i].use # "value" =>
              LET t == args[i]
                  byName == {k \in 1..Len(flag_definitions) :
                                flag_definitions[k].name = Drop(t, 2)}
                  byAbbr == {k \in 1..Len(flag_definitions) :
                                flag_definitions[k].abbreviation.some
                                /\ flag_definitions[k].abbreviation.val = t[2]}
              IN  IF LongShape(t)
                  THEN IF byName # {}
                       THEN cls[i] = Used("flag", flag_definitions[Min(byName)].name)
                       ELSE cls[i].use = "rejected"
                            /\ ReturnedError("UnknownFlag", << Drop(t, 2) >>)
                  ELSE IF ShortShape(t)
                  THEN IF byAbbr # {}
                       THEN cls[i] = Used("flag", flag_definitions[Min(byAbbr)].name)
                       ELSE cls[i].use = "rejected"
                            /\ ReturnedError("UnknownAbbreviation", << t[2] >>)
                  ELSE cls[i].use = "positional"

\* The token -1 rejected as an unknown abbreviation after a flag and the
\* positional -12.
C7_Witness ==
    /\ ReturnedError("UnknownAbbreviation", << "1" >>)
    /\ args[cursor] = TokMinusOne
    /\ FlagIdx # {}
    /\ \E i \in PosIdx : args[i] = TokMinusTwelve

\* C8: on an Ok result every named value has a tag the constraint of the
\* FlagDefinition of that name allows, or is Bool(true) when that constraint
\* is unit, and the positional value at index i has a tag that positional
\* constraint i allows.
C8_TagsAllowed ==
    ret.state = "Ok" =>
        /\ \A name \in DOMAIN ret.args.named :
              LET c == DefOf(name).allowed_type
                  v == ret.args.named[name]
              IN  IF Unit(c) THEN v.tag = "Bool" /\ v.val = TRUE
                  ELSE v.tag \in AllowedTags(c)
        /\ \A i \in 1..Len(ret.args.positional) :
              ret.args.positional[i].tag \in AllowedTags(positional_types[i])

\* An Ok result holding a unit flag, a valued flag and a positional.
C8_Witness ==
    /\ ret.state = "Ok"
    /\ Len(ret.args.positional) >= 1
    /\ \E a \in DOMAIN ret.args.named, b \in DOMAIN ret.args.named :
          Unit(DefOf(a).allowed_type) /\ ~Unit(DefOf(b).allowed_type)

\* C10: when a token matched to a flag with a non-unit constraint is the last
\* token, from_iter fails with MissingFlagValue; when the value token resolves
\* to no representation the constraint allows, it fails with InvalidFlagValue;
\* in both cases the result is the error and holds no entry for the flag.
C10_FlagValueErrors ==
    /\ (pc = "done" /\ Len(args) >= 2 /\ cls[Len(args)].use = "flag"
        /\ ~Unit(DefOf(cls[Len(args)].name).allowed_type)) =>
          /\ ReturnedError("MissingFlagValue", << cls[Len(args)].name >>)
          /\ DOMAIN ret = {"state", "error"}
    /\ \A i \in ValueIdx :
          ~Resolves(DefOf(cls[i].name).allowed_type, args[i]) =>
              /\ ReturnedError("InvalidFlagValue", << args[i], i - 1, cls[i].name >>)
              /\ DOMAIN ret = {"state", "error"}

\* The flag n given a value and then given again as the last token.
C10_Witness ==
    /\ ReturnedError("MissingFlagValue", << NameN >>)
    /\ \E i \in ValueIdx : cls[i].name = NameN

-----------------------------------------------------------------------------
(* Two calls of from_iter on streams that differ in where the flags sit *)

\* The largest number of tokens after the binary in the rearranged streams.
MaxPairArgs == 3

PairStreams == {<< BinaryName >> \o t : t \in SeqsUpTo(Vocabulary, MaxPairArgs)}

\* The stream after the binary cut into items by the history c of its pass:
\* a flag with the value it consumed, a flag alone, or a positional.
RECURSIVE Items(_, _, _)
Items(a, c, i) ==
    IF i > Len(a) THEN << >>
    ELSE IF c[i].use = "flag" /\ i < Len(a) /\ c[i + 1].use = "value"
    THEN << [toks |-> << a[i], a[i + 1] >>, pos |-> FALSE] >> \o Items(a, c, i + 2)
    ELSE << [toks |-> << a[i] >>, pos |-> c[i].use = "positional"] >> \o Items(a, c, i + 1)

Perms(n) == {p \in [1..n -> 1..n] : \A i, j \in 1..n : i # j => p[i] # p[j]}

\* The permutation p leaves the positional items in their order.
KeepsPositionals(items, p) ==
    \A i, j \in 1..Len(items) :
        (i < j /\ items[p[i]].pos /\ items[p[j]].pos) => p[i] < p[j]

RECURSIVE Flatten(_)
Flatten(ss) == IF ss = << >> THEN << >> ELSE Head(ss) \o Flatten(Tail(ss))

Rearrange(a, items, p) ==
    << a[1] >> \o Flatten([k \in 1..Len(items) |-> items[p[k]].toks])

\* The tokens of a stream its pass bound as positionals, in order.
RECURSIVE PosTokens(_, _, _)
PosTokens(a, c, i) ==
    IF i > Len(a) THEN << >>
    ELSE IF c[i].use = "positional" THEN << a[i] >> \o PosTokens(a, c, i + 1)
    ELSE PosTokens(a, c, i + 1)

InitPair ==
    /\ \E a \in PairStreams, s \in Schemas, h \in HostTables :
          LET r == from_iter(a, s.types, s.defs, h)
              items == Items(a, r.cls, 2)
          IN  /\ r.ret.state = "Ok"
              /\ args = a
              /\ positional_types = s.types
              /\ flag_definitions = s.defs
              /\ hosts = h
              /\ \E p \in Perms(Len(items)) :
                    /\ KeepsPositionals(items, p)
                    /\ inp = Rearrange(a, items, p)
    /\ pc = "call"
    /\ cursor = 0
    /\ binary = << >>
    /\ named = hash_new
    /\ positional = << >>
    /\ ret = NotReturned
    /\ cls = << >>
    /\ out = << >>

PairCall ==
    /\ pc = "call"
    /\ LET ra == from_iter(args, positional_types, flag_definitions, hosts)
           rb == from_iter(inp, positional_types, flag_definitions, hosts)
       IN  out' = [a |-> ra.ret, b |-> rb.ret, clsA |-> ra.cls, clsB |-> rb.cls]
    /\ pc' = "returned"
    /\ UNCHANGED << args, positional_types, flag_definitions, hosts, cursor, binary,
                    named, positional, ret, cls, inp >>

NextPair == PairCall

SpecPair == InitPair /\ [][NextPair]_vars

\* C3: for two streams over one schema that both parse and differ only in
\* where the flag tokens sit among the positional tokens, the k-th positional
\* token is resolved against positional constraint k in both, and the two
\* results hold the same positional values.
C3_OrderInvariance ==
    (/\ pc = "returned"
     /\ out.a.state = "Ok"
     /\ out.b.state = "Ok"
     /\ PosTokens(args, out.clsA, 2) = PosTokens(inp, out.clsB, 2)) =>
        LET pa == out.a.args.positional
            pb == out.b.args.positional
            toks == PosTokens(args, out.clsA, 2)
        IN  /\ Len(pa) = Len(pb)
            /\ Len(pa) = Len(toks)
            /\ \A k \in 1..Len(pa) :
                  LET want == parse(positional_types[k], toks[k], hosts)
                  IN  /\ want.some
                      /\ pa[k].tag = want.val.tag
                      /\ pa[k].val = want.val.val
                      /\ pb[k].tag = want.val.tag
                      /\ pb[k].val = want.val.val

\* Two positionals with a flag after them in one stream and before them in
\* the other.
C3_Witness ==
    /\ pc = "returned"
    /\ out.a.state = "Ok"
    /\ out.b.state = "Ok"
    /\ Len(out.a.args.positional) = 2
    /\ Len(args) = 4
    /\ Len(inp) = 4
    /\ out.clsA[4].use = "flag"
    /\ out.clsB[2].use = "flag"
    /\ out.clsB[4].use = "positional"

-----------------------------------------------------------------------------
(* The named mapping of an Ok result *)

\* Some token of the stream that was not taken as a value is the flag d,
\* written --name or -abbreviation.
Supplied(d) ==
    \E i \in 2..Len(args) :
        /\ cls[i].use # "value"
        /\ \/ args[i] = << "-", "-" >> \o d.name
           \/ d.abbreviation.some /\ args[i] = << "-", d.abbreviation.val >>

DeclaredNames == {flag_definitions[k].name : k \in 1..Len(flag_definitions)}

\* C11: on an Ok result get_named(name) is present exactly when some token
\* was classified as the flag of that name, given as --name or as
\* -abbreviation; the key is the name of the flag, never its abbreviation, and
\* a declared flag that was not supplied is absent, the result still being Ok.
C11_NamedPresence ==
    ret.state = "Ok" =>
        /\ \A k \in 1..Len(flag_definitions) :
              get_named(ret.args, flag_definitions[k].name).some
                  <=> Supplied(flag_definitions[k])
        /\ DOMAIN ret.args.named \subseteq DeclaredNames
        /\ \A k \in 1..Len(flag_definitions) :
              LET d == flag_definitions[k]
              IN  (d.abbreviation.some /\ << d.abbreviation.val >> \notin DeclaredNames) =>
                      ~get_named(ret.args, << d.abbreviation.val >>).some

\* The flag vb given as -v and stored under vb, the declared flag n absent.
C11_Witness ==
    /\ ret.state = "Ok"
    /\ \E i \in FlagIdx : args[i] = TokShortV
    /\ get_named(ret.args, NameVerbose).some
    /\ ~get_named(ret.args, << "v" >>).some
    /\ NameN \in DeclaredNames
    /\ ~get_named(ret.args, NameN).some

====
